---- MODULE Spec2Model ----
(***************************************************************************)
(* Model of generate_materials.py: the interactive input collector (main), *)
(* the material file generator (generate_materials, create_material_json)  *)
(* and the manifest patcher (update_common_flowstate_json).                *)
(*                                                                         *)
(* Text is modelled at the level of characters: a Python str is a sequence *)
(* of one-character strings, so that `in`, find, rfind, split, strip and   *)
(* lower are computed the way the interpreter computes them.               *)
(***************************************************************************)
EXTENDS Naturals, Integers, Sequences, FiniteSets, TLC

VARIABLES
    pc,              \* position of the run: collect, confirm, generate, process, exited
    outcome,         \* how the run ended (or "running")
    material_names,  \* main: material_names
    material_paths,  \* generate_materials: material_paths
    i,               \* generate_materials: index of the next name of the for loop (0 before it)
    stdin_read,      \* the raw lines input() has returned while names are collected
    response,        \* the raw lines the confirmation input() has returned (none or one)
    dirs,            \* filesystem: the directories under the working directory
    files,           \* filesystem: path -> content of the generated files
    manifest,        \* filesystem: common_flowstate.json (whether it exists, its text)
    template_exists, \* filesystem: whether testuber.uber exists
    patch,           \* which return of update_common_flowstate_json was taken
    log,             \* the filesystem operations of this run, in order
    start,           \* the filesystem when this run started
    prev,            \* the previous run, if generate_materials ran to its end in it: its
                     \* names, how it ended, the filesystem it left
    run              \* number of the current run of the tool

vars == <<pc, outcome, material_names, material_paths, i, stdin_read, response,
          dirs, files, manifest, template_exists, patch, log, start, prev, run>>

\* ---------------------------------------------------------------- bounds

MaxNames == 2
MaxRuns == 2

\* ---------------------------------------------------------------- strings

\* A text file: whether it exists, and its content.
TextFile(text) == [exists |-> TRUE, text |-> text]
NoFile == [exists |-> FALSE, text |-> <<>>]

Min(S) == CHOOSE x \in S : \A y \in S : x <= y
Max(S) == CHOOSE x \in S : \A y \in S : x >= y

\* str.find(pat): the lowest 0-based index at which pat occurs in s, or -1.
Find(s, pat) ==
    LET hits == {k \in 0..(Len(s) - Len(pat)) :
                    /\ s[k + 1] = pat[1]
                    /\ SubSeq(s, k + 1, k + Len(pat)) = pat}
    IN  IF hits = {} THEN -1 ELSE Min(hits)

\* str.rfind(ch, 0, end): the highest 0-based index below end holding ch, or -1.
RFind(s, ch, end) ==
    LET hits == {k \in 0..(end - 1) : s[k + 1] = ch}
    IN  IF hits = {} THEN -1 ELSE Max(hits)

\* pat in s
Contains(s, pat) == Find(s, pat) # -1

\* '"' + s + '"'
Quoted(s) == <<"\"">> \o s \o <<"\"">>

Whitespace == {" ", "\t"}

\* str.strip(): drop leading and trailing whitespace.
Strip(s) ==
    LET keep == {k \in 1..Len(s) : s[k] \notin Whitespace}
    IN  IF keep = {} THEN <<>> ELSE SubSeq(s, Min(keep), Max(keep))

LowerChar(c) ==
    CASE c = "Y" -> "y"
      [] c = "E" -> "e"
      [] c = "S" -> "s"
      [] c = "N" -> "n"
      [] OTHER -> c

\* str.lower()
Lower(s) == [k \in 1..Len(s) |-> LowerChar(s[k])]

\* 0-based index of the last '/' of s, or -1.
LastSlash(s) == RFind(s, "/", Len(s))

\* material_name.split('/')[-1]
BaseName(name) == SubSeq(name, LastSlash(name) + 2, Len(name))

\* '/'.join(material_name.split('/')[:-1]) if '/' in material_name else ''
ParentPath(name) ==
    IF LastSlash(name) = -1 THEN <<>> ELSE SubSeq(name, 1, LastSlash(name))

\* pathlib: a / b for a relative b
JoinPath(a, b) == a \o <<"/">> \o b

\* ---------------------------------------------------------------- literals

MATL_MARKER == <<"\"", "_", "t", "y", "p", "e", "\"", ":", " ", "\"", "m", "a", "t", "l", "\"">>
TXTR_MARKER == <<"\"", "_", "t", "y", "p", "e", "\"", ":", " ", "\"", "t", "x", "t", "r", "\"">>
PATH_KEY == <<"\"", "_", "p", "a", "t", "h", "\"", ":", " ">>
MATERIAL_PREFIX == <<"m", "a", "t", "e", "r", "i", "a", "l", "/">>
RPAK_SUFFIX == <<"_", "s", "k", "n", "p", ".", "r", "p", "a", "k">>
JSON_SUFFIX == <<"_", "s", "k", "n", "p", ".", "j", "s", "o", "n">>
UBER_SUFFIX == <<"_", "s", "k", "n", "p", ".", "u", "b", "e", "r">>
TEXTURE_PREFIX == <<"t", "e", "x", "t", "u", "r", "e", "/">>
TEXTURE_SUFFIX == <<".", "r", "p", "a", "k">>
ASSETS_DIR == <<"a", "s", "s", "e", "t", "s">>
MATERIAL_DIR == <<"m", "a", "t", "e", "r", "i", "a", "l">>
Indent4 == <<" ", " ", " ", " ">>
Indent6 == <<" ", " ", " ", " ", " ", " ">>
NL == <<"\n">>

\* content of a JSON file holding a descriptor
JsonContent(descriptor) == [kind |-> "json", json |-> descriptor]
\* content of testuber.uber, which the tool never interprets
UberTemplate == [kind |-> "uber"]
\* content of a file whose write was interrupted
Truncated == [kind |-> "truncated"]

\* ---------------------------------------------------------------- create_material_json

TextureKeys == {"0", "1", "2", "3", "4", "5", "6"}

\* Variant: the references built from the base identifier instead of the full name.
TextureRefBaseName(material_name, k) ==
    TEXTURE_PREFIX \o BaseName(material_name) \o <<"_", k>> \o TEXTURE_SUFFIX

\* f"texture/{material_name}_{k}.rpak"
TextureRef(material_name, k) ==
    TEXTURE_PREFIX \o material_name \o <<"_", k>> \o TEXTURE_SUFFIX

\* The descriptor: the name, the seven texture references, and constant fields.
create_material_json(material_name) ==
    [ name       |-> material_name,
      width      |-> 2048,
      height     |-> 2048,
      depth      |-> 0,
      shaderType |-> "sknp",
      textures   |-> [k \in TextureKeys |-> TextureRef(material_name, k)] ]

\* ---------------------------------------------------------------- generate_materials: paths

\* f"material/{material_name}_sknp.rpak"
MaterialPath(material_name) == MATERIAL_PREFIX \o material_name \o RPAK_SUFFIX

\* assets_dir / "material" [/ parent_path]
MaterialDir(material_name) ==
    IF ParentPath(material_name) # <<>>
    THEN JoinPath(JoinPath(ASSETS_DIR, MATERIAL_DIR), ParentPath(material_name))
    ELSE JoinPath(ASSETS_DIR, MATERIAL_DIR)

\* material_dir / f"{base_name}_sknp.json"
JsonFilePath(material_name) ==
    JoinPath(MaterialDir(material_name), BaseName(material_name) \o JSON_SUFFIX)

\* material_dir / f"{base_name}_sknp.uber"
UberFilePath(material_name) ==
    JoinPath(MaterialDir(material_name), BaseName(material_name) \o UBER_SUFFIX)

\* mkdir(parents=True, exist_ok=True): the directory and every ancestor of it.
WithParents(d) ==
    {SubSeq(d, 1, k) : k \in {j \in 1..Len(d) : j = Len(d) \/ d[j + 1] = "/"}}

\* ---------------------------------------------------------------- update_common_flowstate_json

\* Variant: every candidate path classified as new, the membership test left out.
NewPathsAll(content, paths) == paths

\* The paths the first loop classifies as new: those not present in quotes in content.
NewPaths(content, paths) ==
    SelectSeq(paths, LAMBDA p : ~Contains(content, Quoted(p)))

\* The paths the first loop classifies as already existing.
ExistingPaths(content, paths) ==
    SelectSeq(paths, LAMBDA p : Contains(content, Quoted(p)))

\* One entry block, as the f-string of the second loop writes it.
EntryBlock(material_path) ==
    Indent4 \o <<"{">> \o NL
    \o Indent6 \o MATL_MARKER \o <<",">> \o NL
    \o Indent6 \o PATH_KEY \o Quoted(material_path) \o NL
    \o Indent4 \o <<"}", ",">> \o NL

\* new_entries_text: the blocks of the new paths, concatenated in order.
RECURSIVE NewEntriesText(_)
NewEntriesText(paths) ==
    IF paths = <<>> THEN <<>>
    ELSE EntryBlock(Head(paths)) \o NewEntriesText(Tail(paths))

\* Variant: the first open brace of the text instead of the nearest one before the marker.
EntryStartFirstBrace(content, first_matl_index) == Find(content, <<"{">>)

\* content.rfind('{', 0, first_matl_index)
EntryStart(content, first_matl_index) == RFind(content, "{", first_matl_index)

\* content[:entry_start] + new_entries_text + content[entry_start:]
InsertAt(content, entry_start, text) ==
    SubSeq(content, 1, entry_start) \o text \o SubSeq(content, entry_start + 1, Len(content))

\* Variant: a missing marker taken as the end of the text instead of -1.
MarkerIndexOrEnd(content) ==
    IF Find(content, MATL_MARKER) = -1 THEN Len(content) ELSE Find(content, MATL_MARKER)

\* content.find('"_type": "matl"')
MarkerIndex(content) == Find(content, MATL_MARKER)

\* Variant: a missing manifest file created with the new entries instead of left alone.
UpdateManifestCreates(file, paths) ==
    IF ~file.exists
    THEN [result |-> "written", file |-> TextFile(NewEntriesText(paths))]
    ELSE IF NewPaths(file.text, paths) = <<>>
    THEN [result |-> "all_exist", file |-> file]
    ELSE IF MarkerIndex(file.text) = -1
    THEN [result |-> "no_marker", file |-> file]
    ELSE IF EntryStart(file.text, MarkerIndex(file.text)) = -1
    THEN [result |-> "no_brace", file |-> file]
    ELSE [result |-> "written",
          file |-> TextFile(InsertAt(file.text,
                                     EntryStart(file.text, MarkerIndex(file.text)),
                                     NewEntriesText(NewPaths(file.text, paths))))]

\* The function up to its return, the write back succeeding: which return is
\* taken, and the manifest file it leaves.
UpdateManifest(file, paths) ==
    LET content == file.text
    IN
    IF ~file.exists
    THEN [result |-> "not_found", file |-> file]
    ELSE IF NewPaths(content, paths) = <<>>
    THEN [result |-> "all_exist", file |-> file]
    ELSE IF MarkerIndex(content) = -1
    THEN [result |-> "no_marker", file |-> file]
    ELSE IF EntryStart(content, MarkerIndex(content)) = -1
    THEN [result |-> "no_brace", file |-> file]
    ELSE [result |-> "written",
          file |-> TextFile(InsertAt(content,
                                     EntryStart(content, MarkerIndex(content)),
                                     NewEntriesText(NewPaths(content, paths))))]

\* ---------------------------------------------------------------- inputs

NameA == <<"a">>
NameFA == <<"f", "/", "a">>

\* The lines the user may type while names are collected.
RawLines ==
    { <<"a">>,
      <<" ", "f", "/", "a", "\t">>,
      <<>>,
      <<" ", "\t">> }

\* The lines the user may type at the confirmation prompt.
Responses ==
    { <<"y">>,
      <<" ", "Y", "E", "S", " ">>,
      <<"n">>,
      <<"N">>,
      <<"y", "e">>,
      <<"y", " ", "y">>,
      <<>> }

\* ---------------------------------------------------------------- initial manifests

ManifestHeader == <<"{", "\n", " ", " ", "\"", "f", "i", "l", "e", "s", "\"", ":", " ", "[", "\n">>
ManifestFooter == <<" ", " ", "]", "\n", "}", "\n">>
OtherPath == <<"m", "a", "t", "e", "r", "i", "a", "l", "/", "b", "a", "s", "e", "_", "s", "k", "n", "p", ".", "r", "p", "a", "k">>
TexturePath == <<"t", "e", "x", "t", "u", "r", "e", "/", "x", ".", "r", "p", "a", "k">>

\* A texture entry, followed by a comma.
TxtrEntry ==
    Indent4 \o <<"{">> \o NL
    \o Indent6 \o TXTR_MARKER \o <<",">> \o NL
    \o Indent6 \o PATH_KEY \o Quoted(TexturePath) \o NL
    \o Indent4 \o <<"}", ",">> \o NL

\* A material entry that closes the list (no comma).
LastMatlEntry(path) ==
    Indent4 \o <<"{">> \o NL
    \o Indent6 \o MATL_MARKER \o <<",">> \o NL
    \o Indent6 \o PATH_KEY \o Quoted(path) \o NL
    \o Indent4 \o <<"}">> \o NL

\* a texture entry, then one material entry of another material
ManifestOneMatl == ManifestHeader \o TxtrEntry \o LastMatlEntry(OtherPath) \o ManifestFooter
\* one material entry, which already registers material a
ManifestHasA == ManifestHeader \o LastMatlEntry(MaterialPath(NameA)) \o ManifestFooter
\* no material entry at all
ManifestNoMatl == ManifestHeader \o TxtrEntry \o ManifestFooter
\* the marker with no open brace before it
ManifestNoBrace == Indent6 \o MATL_MARKER \o NL

InitialManifests ==
    { TextFile(ManifestOneMatl), TextFile(ManifestHasA), TextFile(ManifestNoMatl),
      TextFile(ManifestNoBrace), NoFile }

EmptyFiles == [p \in {} |-> Truncated]

\* ---------------------------------------------------------------- state

FS == [dirs |-> dirs, files |-> files, manifest |-> manifest]

\* before the first run there is no previous run
NoPrev == [names |-> <<>>, outcome |-> "none", patch |-> "none",
           fs |-> [dirs |-> {}, files |-> EmptyFiles, manifest |-> NoFile]]

Init ==
    /\ pc = "collect"
    /\ outcome = "running"
    /\ material_names = <<>>
    /\ material_paths = <<>>
    /\ i = 0
    /\ stdin_read = <<>>
    /\ response = <<>>
    /\ dirs = {}
    /\ files = EmptyFiles
    /\ manifest \in InitialManifests
    /\ template_exists \in BOOLEAN
    /\ patch = "none"
    /\ log = <<>>
    /\ start = [dirs |-> {}, files |-> EmptyFiles, manifest |-> manifest]
    /\ prev = NoPrev
    /\ run = 1

\* The run ends: main returns, or an exception leaves it.
Exit(how) ==
    /\ pc' = "exited"
    /\ outcome' = how

\* ---------------------------------------------------------------- main

\* input().strip() returns a name: it is appended.
ReadName ==
    /\ pc = "collect"
    /\ Len(material_names) < MaxNames
    /\ \E line \in RawLines :
         /\ Strip(line) # <<>>
         /\ material_names' = Append(material_names, Strip(line))
         /\ stdin_read' = Append(stdin_read, line)
    /\ UNCHANGED <<pc, outcome, material_paths, i, response, dirs, files, manifest,
                   template_exists, patch, log, start, prev, run>>

\* input().strip() is empty: the loop breaks; without names main returns.
ReadBlank ==
    /\ pc = "collect"
    /\ \E line \in RawLines :
         /\ Strip(line) = <<>>
         /\ stdin_read' = Append(stdin_read, line)
    /\ IF material_names = <<>>
       THEN Exit("no_names")
       ELSE pc' = "confirm" /\ UNCHANGED outcome
    /\ UNCHANGED <<material_names, material_paths, i, response, dirs, files, manifest,
                   template_exists, patch, log, start, prev, run>>

\* input() at the end of the input raises EOFError, which nothing catches.
ReadEOF ==
    /\ pc = "collect"
    /\ Exit("eof_collecting")
    /\ UNCHANGED <<material_names, material_paths, i, stdin_read, response, dirs, files,
                   manifest, template_exists, patch, log, start, prev, run>>

\* Variant: any answer that starts with y accepted.
AffirmativePrefix(confirm) == confirm # <<>> /\ Head(confirm) = "y"

\* confirm in ('y', 'yes')
Affirmative(confirm) == confirm \in {<<"y">>, <<"y", "e", "s">>}

\* The confirmation prompt: generate on y / yes, otherwise cancel.
Confirm ==
    /\ pc = "confirm"
    /\ \E r \in Responses :
         /\ response' = <<r>>
         /\ IF Affirmative(Lower(Strip(r)))
            THEN pc' = "generate" /\ UNCHANGED outcome
            ELSE Exit("cancelled")
    /\ stdin_read' = <<>>
    /\ UNCHANGED <<material_names, material_paths, i, dirs, files, manifest,
                   template_exists, patch, log, start, prev, run>>

\* The confirmation input() meets the end of the input: EOFError.
ConfirmEOF ==
    /\ pc = "confirm"
    /\ Exit("eof_confirming")
    /\ UNCHANGED <<material_names, material_paths, i, stdin_read, response, dirs, files,
                   manifest, template_exists, patch, log, start, prev, run>>

\* ---------------------------------------------------------------- generate_materials

\* Variant: the loop entered without the check of the template.
GenerateUnchecked ==
    /\ pc = "generate"
    /\ IF material_names = <<>>
       THEN Exit("no_names") /\ UNCHANGED <<i, material_paths>>
       ELSE /\ pc' = "process"
            /\ i' = 1
            /\ material_paths' = <<>>
            /\ UNCHANGED outcome
    /\ UNCHANGED <<material_names, stdin_read, response, dirs, files, manifest,
                   template_exists, patch, log, start, prev, run>>

\* The checks before the loop: an empty list and a missing template both return.
Generate ==
    /\ pc = "generate"
    /\ IF material_names = <<>>
       THEN Exit("no_names") /\ UNCHANGED <<i, material_paths>>
       ELSE IF ~template_exists
       THEN Exit("no_template") /\ UNCHANGED <<i, material_paths>>
       ELSE /\ pc' = "process"
            /\ i' = 1
            /\ material_paths' = <<>>
            /\ UNCHANGED outcome
    /\ UNCHANGED <<material_names, stdin_read, response, dirs, files, manifest,
                   template_exists, patch, log, start, prev, run>>

\* The for loop has a name left to process.
InLoop == pc = "process" /\ i <= Len(material_names)

\* Variant: the manifest updated inside the loop, once a first name is processed.
LoopDoneEarly == pc = "process" /\ i >= 2

\* The for loop is over: update_common_flowstate_json is called next.
LoopDone == pc = "process" /\ i > Len(material_names)

\* files with path p holding content c (created or overwritten)
WriteFile(fs, p, c) == [q \in DOMAIN fs \cup {p} |-> IF q = p THEN c ELSE fs[q]]

Op(op, path) == [op |-> op, path |-> path]

ManifestFile == <<"c", "o", "m", "m", "o", "n", "_", "f", "l", "o", "w", "s", "t", "a", "t", "e", ".", "j", "s", "o", "n">>

\* One iteration of the loop: record the path, make the directory, write the JSON
\* file, copy the template.
ProcessMaterial ==
    /\ InLoop
    /\ LET name == material_names[i]
       IN  /\ material_paths' = Append(material_paths, MaterialPath(name))
           /\ dirs' = dirs \cup WithParents(MaterialDir(name))
           /\ files' = WriteFile(WriteFile(files, JsonFilePath(name),
                                           JsonContent(create_material_json(name))),
                                 UberFilePath(name), UberTemplate)
           /\ log' = log \o << Op("mkdir", MaterialDir(name)),
                               Op("write", JsonFilePath(name)),
                               Op("copy", UberFilePath(name)) >>
    /\ i' = i + 1
    /\ UNCHANGED <<pc, outcome, material_names, stdin_read, response, manifest,
                   template_exists, patch, start, prev, run>>

\* One iteration of the loop in which a filesystem call raises: at mkdir, at the
\* open of the JSON file, during json.dump, or during the copy.  Nothing catches
\* the exception; the run ends there.
ProcessFails ==
    /\ InLoop
    /\ LET name == material_names[i]
       IN  /\ material_paths' = Append(material_paths, MaterialPath(name))
           /\ \E stage \in {"mkdir", "open", "dump", "copy"} :
                /\ dirs' = IF stage = "mkdir" THEN dirs
                           ELSE dirs \cup WithParents(MaterialDir(name))
                /\ files' =
                     CASE stage \in {"mkdir", "open"} -> files
                       [] stage = "dump" -> WriteFile(files, JsonFilePath(name), Truncated)
                       [] stage = "copy" ->
                            WriteFile(WriteFile(files, JsonFilePath(name),
                                                JsonContent(create_material_json(name))),
                                      UberFilePath(name), Truncated)
                /\ log' =
                     CASE stage = "mkdir" -> log
                       [] stage = "open" -> Append(log, Op("mkdir", MaterialDir(name)))
                       [] stage = "dump" ->
                            log \o << Op("mkdir", MaterialDir(name)),
                                      Op("write", JsonFilePath(name)) >>
                       [] stage = "copy" ->
                            log \o << Op("mkdir", MaterialDir(name)),
                                      Op("write", JsonFilePath(name)),
                                      Op("copy", UberFilePath(name)) >>
    /\ Exit("fs_error")
    /\ UNCHANGED <<material_names, i, stdin_read, response, manifest,
                   template_exists, patch, start, prev, run>>

\* The operations update_common_flowstate_json performs on the manifest file.
PatchOps(result) ==
    CASE result = "not_found" -> <<>>
      [] result = "written" -> <<Op("read", ManifestFile), Op("write", ManifestFile)>>
      [] OTHER -> <<Op("read", ManifestFile)>>

\* The call of update_common_flowstate_json after the loop, then the return.
Patch ==
    /\ LoopDone
    /\ LET r == UpdateManifest(manifest, material_paths)
       IN  /\ manifest' = r.file
           /\ patch' = r.result
           /\ log' = log \o PatchOps(r.result)
    /\ Exit("completed")
    /\ UNCHANGED <<material_names, material_paths, i, stdin_read, response, dirs, files,
                   template_exists, start, prev, run>>

\* The same call when the write back raises: the except clause reports it and the
\* function returns.  Either open() failed (the file is as it was) or the write
\* failed after open() had truncated the file.
PatchWriteFails ==
    /\ LoopDone
    /\ UpdateManifest(manifest, material_paths).result = "written"
    /\ \E at \in {"open", "write"} :
         /\ manifest' = IF at = "open" THEN manifest ELSE TextFile(<<>>)
         /\ log' = log \o (IF at = "open" THEN <<Op("read", ManifestFile)>>
                           ELSE <<Op("read", ManifestFile), Op("write", ManifestFile)>>)
    /\ patch' = "write_error"
    /\ Exit("completed")
    /\ UNCHANGED <<material_names, material_paths, i, stdin_read, response, dirs, files,
                   template_exists, start, prev, run>>

\* ---------------------------------------------------------------- the next run

\* The tool is started again in the same working directory.
RunAgain ==
    /\ pc = "exited"
    /\ run < MaxRuns
    /\ prev' = IF outcome = "completed"
               THEN [names |-> material_names, outcome |-> outcome, patch |-> patch, fs |-> FS]
               ELSE NoPrev
    /\ start' = FS
    /\ run' = run + 1
    /\ pc' = "collect"
    /\ outcome' = "running"
    /\ material_names' = <<>>
    /\ material_paths' = <<>>
    /\ i' = 0
    /\ stdin_read' = <<>>
    /\ response' = <<>>
    /\ patch' = "none"
    /\ log' = <<>>
    /\ UNCHANGED <<dirs, files, manifest, template_exists>>

Next ==
    \/ ReadName
    \/ ReadBlank
    \/ ReadEOF
    \/ Confirm
    \/ ConfirmEOF
    \/ Generate
    \/ ProcessMaterial
    \/ ProcessFails
    \/ Patch
    \/ PatchWriteFails
    \/ RunAgain

Spec == Init /\ [][Next]_vars

\* ---------------------------------------------------------------- properties

\* number of places at which pat occurs in s
CountOcc(s, pat) ==
    Cardinality({k \in 0..(Len(s) - Len(pat)) :
                    /\ s[k + 1] = pat[1]
                    /\ SubSeq(s, k + 1, k + Len(pat)) = pat})

\* the paths a manifest of this model can hold
KnownPaths == {MaterialPath(NameA), MaterialPath(NameFA), OtherPath}

\* the run is over and generate_materials ran to its end in it
Completed == pc = "exited" /\ outcome = "completed"

\* t holds the marker, and an open brace somewhere before its first occurrence
MarkerAfterBrace(t) ==
    /\ Find(t, MATL_MARKER) # -1
    /\ \E k \in 0..(Find(t, MATL_MARKER) - 1) : t[k + 1] = "{"

\* the candidate paths that do not occur in quotes in t, in their order
RECURSIVE NotQuotedIn(_, _)
NotQuotedIn(t, paths) ==
    IF paths = <<>> THEN <<>>
    ELSE IF Find(t, <<"\"">> \o Head(paths) \o <<"\"">>) = -1
    THEN <<Head(paths)>> \o NotQuotedIn(t, Tail(paths))
    ELSE NotQuotedIn(t, Tail(paths))

\* the files of name n are on disk, complete
GeneratedFilesIntact(n) ==
    /\ JsonFilePath(n) \in DOMAIN files
    /\ UberFilePath(n) \in DOMAIN files
    /\ files[JsonFilePath(n)] = JsonContent(create_material_json(n))
    /\ files[UberFilePath(n)] = UberTemplate

\* C1: no "_path" value occurs in more than one entry of the manifest, whatever
\* lists the runs were given, and a run in which every path already exists
\* leaves the manifest as it was.
C1_ManifestPathsUnique ==
    /\ \A p \in KnownPaths : CountOcc(manifest.text, PATH_KEY \o Quoted(p)) <= 1
    /\ (pc = "exited" /\ patch = "all_exist" => manifest = start.manifest)

\* C2: when the manifest holds the marker with an open brace before it, the patcher
\* leaves exactly: the text up to the nearest open brace before the first marker,
\* one block per candidate path not already present in quotes, in the candidates'
\* order, then the rest of the text.
C2_PatchInsertsNewEntries ==
    ( /\ Completed
      /\ patch # "write_error"
      /\ start.manifest.exists
      /\ MarkerAfterBrace(start.manifest.text) )
    =>
    LET orig == start.manifest.text
        m == Find(orig, MATL_MARKER)
    IN  /\ manifest.exists
        /\ \E k \in 0..(m - 1) :
             /\ orig[k + 1] = "{"
             /\ \A j \in (k + 1)..(m - 1) : orig[j + 1] # "{"
             /\ manifest.text =
                    SubSeq(orig, 1, k)
                    \o NewEntriesText(NotQuotedIn(orig, material_paths))
                    \o SubSeq(orig, k + 1, Len(orig))

\* C2 happens: a patch that skipped a path already present and inserted another.
C2_Witness ==
    /\ Completed
    /\ patch = "written"
    /\ Len(material_paths) = 2
    /\ Len(NotQuotedIn(start.manifest.text, material_paths)) = 1
    /\ manifest # start.manifest

\* C3: when the manifest holds no marker, or no open brace before the first
\* marker, the manifest file is the same before and after the run and the patch
\* phase has written nothing.
C3_NoMarkerLeavesManifest ==
    (start.manifest.exists /\ ~MarkerAfterBrace(start.manifest.text))
    =>
    /\ manifest = start.manifest
    /\ patch \notin {"written", "write_error"}
    /\ Op("write", ManifestFile) \notin {log[k] : k \in 1..Len(log)}

\* C3 happens: a run with two new paths whose patch phase found no marker.
C3_Witness ==
    /\ Completed
    /\ patch = "no_marker"
    /\ Len(material_paths) = 2
    /\ manifest = start.manifest

\* the name just processed by the loop
JustProcessed == material_names[i - 1]

\* C4 as amended: the JSON file just generated for a name holds exactly seven
\* texture references, keyed "0" to "6", each "texture/" + full name + "_" + key
\* + ".rpak".
C4_TextureRefsWithPrefix ==
    (pc = "process" /\ i > 1)
    =>
    LET f == files[JsonFilePath(JustProcessed)]
    IN  /\ f.kind = "json"
        /\ f.json.name = JustProcessed
        /\ DOMAIN f.json.textures = {"0", "1", "2", "3", "4", "5", "6"}
        /\ \A k \in DOMAIN f.json.textures :
             f.json.textures[k] =
                 <<"t", "e", "x", "t", "u", "r", "e", "/">> \o JustProcessed
                 \o <<"_", k>> \o <<".", "r", "p", "a", "k">>

\* C4 as stated: the references are full name + "_" + key + ".rpak".
C4_TextureRefsAreNameKeyRpak ==
    (pc = "process" /\ i > 1)
    =>
    LET f == files[JsonFilePath(JustProcessed)]
    IN  /\ f.kind = "json"
        /\ DOMAIN f.json.textures = {"0", "1", "2", "3", "4", "5", "6"}
        /\ \A k \in DOMAIN f.json.textures :
             f.json.textures[k] =
                 JustProcessed \o <<"_", k>> \o <<".", "r", "p", "a", "k">>

\* C4 happens: a name with a directory part has just been generated.
C4_Witness ==
    /\ pc = "process"
    /\ i = 2
    /\ material_names[1] = NameFA
    /\ JsonFilePath(NameFA) \in DOMAIN files

\* the trimmed non-empty lines among lines, in order
NonEmptyTrimmed(lines) ==
    SelectSeq([k \in 1..Len(lines) |-> Strip(lines[k])], LAMBDA l : l # <<>>)

\* C5: the collection always finishes with the trimmed non-empty lines read so
\* far, on an empty line and at the end of the input alike: it never ends in an
\* exception.
C5_CollectionAlwaysFinishes ==
    /\ outcome # "eof_collecting"
    /\ (pc = "confirm" => material_names = NonEmptyTrimmed(stdin_read))

\* C6: nothing touches the filesystem in a run unless names were given and the
\* confirmation, trimmed and lower-cased, is "y" or "yes".
C6_NoSideEffectWithoutConfirmation ==
    (FS # start \/ log # <<>> \/ pc \in {"generate", "process"})
    =>
    /\ material_names # <<>>
    /\ response # <<>>
    /\ Lower(Strip(response[1])) \in {<<"y">>, <<"y", "e", "s">>}

\* C6 happens: two names were given, the answer was not y / yes, and the run
\* ended with the filesystem as it was.
C6_Witness ==
    /\ pc = "exited"
    /\ outcome = "cancelled"
    /\ Len(material_names) = 2
    /\ response = << <<"y", "e">> >>
    /\ FS = start

\* C7: without the template, generate_materials processes no name: no directory,
\* no file, no read or write of the manifest.
C7_MissingTemplateAbortsFirst ==
    ~template_exists
    =>
    /\ FS = start
    /\ log = <<>>
    /\ i = 0
    /\ pc # "process"
    /\ outcome \notin {"completed", "fs_error"}

\* C7 happens: a confirmed run of two names ended at the template check.
C7_Witness ==
    /\ pc = "exited"
    /\ outcome = "no_template"
    /\ Len(material_names) = 2
    /\ FS = start

\* C8: without the manifest file only the patch phase is given up: the files of
\* every name are in place, complete, and no manifest file appears.
C8_MissingManifestKeepsFiles ==
    (Completed /\ ~start.manifest.exists)
    =>
    /\ patch = "not_found"
    /\ manifest = start.manifest
    /\ \A k \in 1..Len(material_names) : GeneratedFilesIntact(material_names[k])

\* C8 happens: two different materials generated, no manifest file.
C8_Witness ==
    /\ Completed
    /\ patch = "not_found"
    /\ material_names = <<NameFA, NameA>>
    /\ GeneratedFilesIntact(NameFA)
    /\ GeneratedFilesIntact(NameA)
    /\ ~manifest.exists

\* this run and the one before it both ran generate_materials to its end on the
\* same list, no write of the manifest failing
SameListRerun ==
    /\ Completed
    /\ prev.outcome = "completed"
    /\ material_names = prev.names
    /\ patch # "write_error"
    /\ prev.patch # "write_error"

FileOps(ops) == SelectSeq(ops, LAMBDA o : o.op \in {"write", "copy"} /\ o.path # ManifestFile)

\* the writes and copies a whole loop over names performs, in order
RECURSIVE AllFileOps(_)
AllFileOps(names) ==
    IF names = <<>> THEN <<>>
    ELSE << Op("write", JsonFilePath(Head(names))), Op("copy", UberFilePath(Head(names))) >>
         \o AllFileOps(Tail(names))

\* the positions of the writes of the manifest in the log
ManifestWrites == {k \in 1..Len(log) : log[k] = Op("write", ManifestFile)}

\* C10: in a run the manifest is written at most once, and only after the JSON
\* and .uber files of every name were written in input order; a run that a
\* filesystem failure ends inside the loop leaves the manifest as it was.
C10_ManifestWrittenLast ==
    /\ Cardinality(ManifestWrites) <= 1
    /\ \A k \in ManifestWrites :
         /\ k = Len(log)
         /\ FileOps(SubSeq(log, 1, k - 1)) = AllFileOps(material_names)
    /\ (manifest # start.manifest =>
          /\ Completed
          /\ ManifestWrites # {}
          /\ \A k \in 1..Len(material_names) : GeneratedFilesIntact(material_names[k]))
    /\ (outcome = "fs_error" => manifest = start.manifest)

\* C10 happens: the loop failed at the second name, the files of the first are
\* in place, and the manifest, which holds the marker, is as it was.
C10_Witness ==
    /\ pc = "exited"
    /\ outcome = "fs_error"
    /\ i = 2
    /\ GeneratedFilesIntact(material_names[1])
    /\ material_names[2] # material_names[1]
    /\ MarkerAfterBrace(manifest.text)
    /\ manifest = start.manifest

====
